---- MODULE Spec2Model ----
(***************************************************************************)
(* The chat client's conversation store (store/chatStore: reducer and its  *)
(* read accessors) and the senders that dispatch into it (ChatView,        *)
(* EmotionChat, TalkToAI, Sidebar), with the simulated token stream of     *)
(* api/client.                                                             *)
(*                                                                         *)
(* A JavaScript string is a sequence of atoms.  An atom is one character,  *)
(* or a whole fixed phrase of the source text whose inside no operation    *)
(* of the program looks at (the apology texts, the tone phrases).          *)
(* null and undefined are the value Null.                                  *)
(*                                                                         *)
(* Five specifications share the variables: Spec (the application),        *)
(* StoreSpec (the reducer under any sequence of actions), QuerySpec (the   *)
(* read accessors on any state of the State type), StreamSpec (mockStream  *)
(* with a holder of its cancel handle) and MarkdownSpec (parseMarkdown,    *)
(* one loop iteration per step).                                           *)
(***************************************************************************)
EXTENDS Integers, Sequences, FiniteSets, TLC

VARIABLES
  store,       \* the useReducer state of ChatProvider
  dispatched,  \* history (StoreSpec): the action dispatched last, and the error it threw
  before,      \* history (StoreSpec): the store before that action
  steps,       \* history (StoreSpec): how many actions were dispatched
  renames,     \* history: per conversation, the automatic renames dispatched so far
  mode,        \* App: "emotion" when the emotion flag is on (EmotionChat), else "chat" (ChatView)
  sending,     \* the sending flag (useState) of ChatView / EmotionChat
  sends,       \* the runs of handleSend / sendVoiceMessage, in order of invocation
  rec,         \* TalkToAI: listening, recognitionError and the recognizers that run
  out,         \* history (QuerySpec): the last call of a read accessor and what it returned
  md           \* MarkdownSpec: the locals of a run of parseMarkdown

appVars == <<mode, sending, sends, rec, renames>>
history == <<dispatched, before, steps, out, md>>
vars == <<store, dispatched, before, steps, renames, mode, sending, sends, rec, out, md>>

Null == "null"

----------------------------------------------------------------------------
(* Bounds of the model *)

MaxDispatch == 4
\* the runs of a send handler and the running recognizers, together
MaxSends == 2
MaxConvs == 2
MaxIds == 2
MaxCancels == 2
MaxInline == 5
MaxLines == 4

----------------------------------------------------------------------------
(* Values *)

ConvName == <<"c1", "c2", "c3", "c4", "c5", "c6", "c7", "c8">>
MsgName == <<"m1", "m2", "m3", "m4", "m5", "m6", "m7", "m8">>

Roles == {"user", "assistant"}
Fields == {"id", "role", "content", "createdAt"}

NewChat == <<"N", "e", "w", " ", "c", "h", "a", "t">>
Custom == <<"C", "u", "s", "t", "o", "m">>

Range(s) == {s[i] : i \in DOMAIN s}

IsPrefix(s, t) == Len(s) <= Len(t) /\ SubSeq(t, 1, Len(s)) = s

\* { ...obj, [k]: v }
Put(obj, k, v) == [x \in DOMAIN obj \cup {k} |-> IF x = k THEN v ELSE obj[x]]

\* Object.keys order of { ...obj, [k]: v }: an existing key keeps its place
PutKey(keys, k) == IF k \in Range(keys) THEN keys ELSE Append(keys, k)

\* { ...a, ...b }
Spread(a, b) == [f \in DOMAIN a \cup DOMAIN b |-> IF f \in DOMAIN b THEN b[f] ELSE a[f]]

\* the names an object inherits from Object.prototype: obj[k] finds them
\* although k is no key of obj
Inherited ==
  {"constructor", "toString", "toLocaleString", "valueOf", "hasOwnProperty",
   "isPrototypeOf", "propertyIsEnumerable", "__proto__", "__defineGetter__",
   "__defineSetter__", "__lookupGetter__", "__lookupSetter__"}

\* what obj[k] yields for an inherited name: a function, or the prototype
Inherits(k) == [inherited |-> k]

\* obj[k] is truthy: the values the store keeps under its keys are objects
Has(obj, k) == k \in DOMAIN obj \/ k \in Inherited

\* obj[k], where it is truthy
Lookup(obj, k) == IF k \in DOMAIN obj THEN obj[k] ELSE Inherits(k)

\* the properties { ...v } copies: an inherited function has none to copy
Own(v) == IF "inherited" \in DOMAIN v THEN <<>> ELSE v

\* v.f, undefined read as null
Prop(v, f) == IF f \in DOMAIN v THEN v[f] ELSE Null

\* the TypeError a read of undefined.map or a spread of undefined throws
TypeError == [error |-> "TypeError"]

----------------------------------------------------------------------------
(* store/chatStore *)

initialState ==
  [conversations |-> <<>>, convKeys |-> <<>>, messages |-> <<>>, activeId |-> Null]

newConversationKeepsActive(state, rnd, now) ==
  LET conv == [id |-> rnd, title |-> NewChat, createdAt |-> now, messageIds |-> <<>>]
  IN [state EXCEPT !.conversations = Put(@, rnd, conv),
                   !.convKeys = PutKey(@, rnd)]

newConversationOtherActive(state, rnd, now) ==
  LET conv == [id |-> rnd, title |-> NewChat, createdAt |-> now, messageIds |-> <<>>]
  IN [state EXCEPT !.conversations = Put(@, rnd, conv),
                   !.convKeys = PutKey(@, rnd),
                   !.activeId = ConvName[Len(state.convKeys) + 2]]

\* case 'NEW_CONVERSATION'; rnd: the id Math.random yields, now: new Date()
newConversation(state, rnd, now) ==
  LET conv == [id |-> rnd, title |-> NewChat, createdAt |-> now, messageIds |-> <<>>]
  IN [state EXCEPT !.conversations = Put(@, rnd, conv),
                   !.convKeys = PutKey(@, rnd),
                   !.activeId = rnd]

\* case 'SET_ACTIVE'
setActive(state, action) == [state EXCEPT !.activeId = action.id]

addMessagePrepend(state, action) ==
  IF ~Has(state.conversations, action.conversationId) THEN state
  ELSE LET conv == Lookup(state.conversations, action.conversationId)
           updatedConv == [conv EXCEPT !.messageIds = <<action.message.id>> \o @]
       IN IF "messageIds" \notin DOMAIN conv THEN TypeError
          ELSE
          [state EXCEPT !.conversations = Put(@, action.conversationId, updatedConv),
                        !.messages = Put(@, action.message.id, action.message)]

addMessageNoInsert(state, action) ==
  IF ~Has(state.conversations, action.conversationId) THEN state
  ELSE LET conv == Lookup(state.conversations, action.conversationId)
           updatedConv == [conv EXCEPT !.messageIds = Append(@, action.message.id)]
       IN IF "messageIds" \notin DOMAIN conv THEN TypeError
          ELSE
          [state EXCEPT !.conversations = Put(@, action.conversationId, updatedConv)]

addMessageNoAppend(state, action) ==
  IF ~Has(state.conversations, action.conversationId) THEN state
  ELSE IF "messageIds" \notin DOMAIN Lookup(state.conversations, action.conversationId)
  THEN TypeError
  ELSE [state EXCEPT !.messages = Put(@, action.message.id, action.message)]

\* case 'ADD_MESSAGE': the guard is a lookup, so it lets an inherited name
\* pass, and the spread of a messageIds that is undefined throws
addMessage(state, action) ==
  IF ~Has(state.conversations, action.conversationId) THEN state
  ELSE LET conv == Lookup(state.conversations, action.conversationId)
           updatedConv == [conv EXCEPT !.messageIds = Append(@, action.message.id)]
       IN IF "messageIds" \notin DOMAIN conv THEN TypeError
          ELSE
          [state EXCEPT !.conversations = Put(@, action.conversationId, updatedConv),
                        !.messages = Put(@, action.message.id, action.message)]

updateMessageRestamp(state, action) ==
  IF ~Has(state.messages, action.id) THEN state
  ELSE LET merged == Spread(Own(Lookup(state.messages, action.id)), action.patch)
       IN [state EXCEPT !.messages =
             Put(@, action.id,
                 IF "createdAt" \in DOMAIN merged
                 THEN [merged EXCEPT !.createdAt = @ + 1] ELSE merged)]

\* case 'UPDATE_MESSAGE': the guard is a lookup, so under an inherited name
\* that is no key yet the patch alone becomes the message
updateMessage(state, action) ==
  IF ~Has(state.messages, action.id) THEN state
  ELSE LET existing == Lookup(state.messages, action.id)
       IN [state EXCEPT !.messages =
             Put(@, action.id, Spread(Own(existing), action.patch))]

\* case 'RENAME_CONVERSATION': the guard is a lookup, so under an inherited
\* name that is no key yet a conversation of a title alone comes to be
renameConversation(state, action) ==
  IF ~Has(state.conversations, action.id) THEN state
  ELSE LET conv == Lookup(state.conversations, action.id)
       IN [state EXCEPT !.conversations =
                          Put(@, action.id, Spread(Own(conv), [title |-> action.title])),
                        !.convKeys = PutKey(@, action.id)]

reducer(state, action, rnd, now) ==
  CASE action.type = "NEW_CONVERSATION" -> newConversation(state, rnd, now)
    [] action.type = "SET_ACTIVE" -> setActive(state, action)
    [] action.type = "ADD_MESSAGE" -> addMessage(state, action)
    [] action.type = "UPDATE_MESSAGE" -> updateMessage(state, action)
    [] action.type = "RENAME_CONVERSATION" -> renameConversation(state, action)
    [] OTHER -> state

\* the null a conversation lookup yields
NoConversation == [id |-> Null, title |-> <<>>, createdAt |-> 0, messageIds |-> <<>>]

getActiveConversation(state) ==
  IF state.activeId # Null /\ Has(state.conversations, state.activeId)
  THEN Lookup(state.conversations, state.activeId)
  ELSE NoConversation

\* the lookups find inherited names too: a conversation found that way has
\* no messageIds to map, which throws (the list of the error stands for the
\* throw), and an id found that way stays in the list as what it inherits
getMessagesForConversation(state, conversationId) ==
  IF ~Has(state.conversations, conversationId) THEN <<>>
  ELSE LET conv == Lookup(state.conversations, conversationId)
       IN IF "messageIds" \notin DOMAIN conv THEN <<TypeError>>
          ELSE LET known == SelectSeq(conv.messageIds, LAMBDA id : Has(state.messages, id))
               IN [i \in DOMAIN known |-> Lookup(state.messages, known[i])]

\* new Date(): the model keeps one time of creation; no operation of the
\* program reads createdAt
Now == 0

\* Math.random in NEW_CONVERSATION: an id no conversation has yet
FreshConvId(state) == ConvName[Len(state.convKeys) + 1]

----------------------------------------------------------------------------
(* The store under any sequence of actions: every action of the Action type, *)
(* with ids that exist and ids that do not                                   *)

StoreConvIds == {"c1", "c2", "c9", "constructor"}
StoreMsgIds == {"m1", "constructor"}
StoreContents == {<<>>, <<"a">>}
StoreTitles == {NewChat, Custom}
\* a message is created at time Now; a patch that names createdAt moves it on
StoreMessages ==
  [id : StoreMsgIds, role : Roles, content : StoreContents, createdAt : {Now}]

\* Partial<Message>: any subset of the fields, each with a value of its type
MkPatch(fs, i, r, c, t) ==
  [f \in fs |-> CASE f = "id" -> i
                 [] f = "role" -> r
                 [] f = "content" -> c
                 [] f = "createdAt" -> t]

StorePatches ==
  {MkPatch(fs, i, r, c, t) :
     fs \in SUBSET Fields, i \in StoreMsgIds, r \in Roles, c \in StoreContents, t \in {Now + 1}}

\* a reducer that throws leaves the state the store holds as it was
Dispatch(action, rnd, now) ==
  /\ store' = (LET next == reducer(store, action, rnd, now)
               IN IF next = TypeError THEN store ELSE next)
  /\ dispatched' = IF reducer(store, action, rnd, now) = TypeError
                   THEN <<action, TypeError>> ELSE <<action>>
  /\ before' = store
  /\ steps' = steps + 1
  /\ UNCHANGED <<appVars, out, md>>

\* no render is held: a value of the State type, so that snapshots compare
NoSnap == initialState

\* TalkToAI before any click: not listening, no error, no recognizer
Idle == [listening |-> FALSE, error |-> Null, live |-> <<>>]

\* a recognizer startListening has created and started: its onend holds the
\* sendVoiceMessage of the render of the click; started: onstart has fired
Recognizer(snap) == [snap |-> snap, started |-> FALSE]

\* event.error of a SpeechRecognitionErrorEvent; "": an event without one
RecognitionErrors == {"no-speech", "not-allowed", "network", ""}

\* event.error || 'Unknown recognition error'
errorOf(error) == IF error = "" THEN "Unknown recognition error" ELSE error

\* seq without its i-th element
Without(seq, i) == SubSeq(seq, 1, i - 1) \o SubSeq(seq, i + 1, Len(seq))

\* parseMarkdown is not running
NoParse ==
  [input |-> <<>>, lines |-> <<>>, i |-> 0, rest |-> <<>>, parts |-> <<>>,
   nodes |-> <<>>, pc |-> "idle"]

\* no accessor has been called yet
NoCall == [conversationId |-> Null, result |-> <<>>]

Init ==
  /\ store = initialState
  /\ dispatched = <<>>
  /\ before = initialState
  /\ steps = 0
  /\ renames = <<>>
  /\ mode \in {"chat", "emotion"}
  /\ sending = FALSE
  /\ sends = <<>>
  /\ rec = Idle
  /\ out = NoCall
  /\ md = NoParse

StoreNewConversation ==
  /\ steps < MaxDispatch
  /\ Dispatch([type |-> "NEW_CONVERSATION"], FreshConvId(store), Now)

StoreSetActive ==
  /\ steps < MaxDispatch
  /\ \E id \in StoreConvIds :
       Dispatch([type |-> "SET_ACTIVE", id |-> id], Null, Null)

StoreAddMessage ==
  /\ steps < MaxDispatch
  /\ \E c \in StoreConvIds, m \in StoreMessages :
       Dispatch([type |-> "ADD_MESSAGE", conversationId |-> c, message |-> m], Null, Null)

StoreUpdateMessage ==
  /\ steps < MaxDispatch
  /\ \E id \in StoreMsgIds, p \in StorePatches :
       Dispatch([type |-> "UPDATE_MESSAGE", id |-> id, patch |-> p], Null, Null)

StoreRenameConversation ==
  /\ steps < MaxDispatch
  /\ \E id \in StoreConvIds, t \in StoreTitles :
       Dispatch([type |-> "RENAME_CONVERSATION", id |-> id, title |-> t], Null, Null)

StoreNext ==
  \/ StoreNewConversation
  \/ StoreSetActive
  \/ StoreAddMessage
  \/ StoreUpdateMessage
  \/ StoreRenameConversation

StoreInit == Init /\ mode = "chat"

StoreSpec == StoreInit /\ [][StoreNext]_vars

----------------------------------------------------------------------------
(* The read accessors on any state of the State type: a conversation's    *)
(* messageIds may name ids that messages does not hold                    *)

QueryMsgIds == {"m1", "m2", "m3", "constructor"}

\* the sequences over ids of length at most n
RECURSIVE SeqsUpTo(_, _)
SeqsUpTo(ids, n) ==
  IF n = 0 THEN {<<>>}
  ELSE LET shorter == SeqsUpTo(ids, n - 1)
       IN shorter \cup {Append(q, id) : q \in shorter, id \in ids}

QueryConversation(c, ids) == [id |-> c, title |-> NewChat, createdAt |-> Now, messageIds |-> ids]

QueryMessages ==
  {[k \in keys |-> [id |-> k, role |-> IF k = "m1" THEN "user" ELSE "assistant",
                    content |-> IF k = "m1" THEN <<"a">> ELSE <<>>, createdAt |-> Now]] :
     keys \in SUBSET {"m1", "m2"}}

QueryStores ==
  {[conversations |-> [c \in Range(keys) |-> QueryConversation(c, ids[c])],
    convKeys |-> keys, messages |-> msgs, activeId |-> Null] :
     keys \in {<<>>, <<"c1">>, <<"c1", "c2">>},
     ids \in [{"c1", "c2"} -> SeqsUpTo(QueryMsgIds, MaxIds)],
     msgs \in QueryMessages}

QueryInit ==
  /\ store \in QueryStores
  /\ dispatched = <<>>
  /\ before = initialState
  /\ steps = 0
  /\ renames = <<>>
  /\ mode = "chat"
  /\ sending = FALSE
  /\ sends = <<>>
  /\ rec = Idle
  /\ out = NoCall
  /\ md = NoParse

\* a component reads the messages of a conversation
Query ==
  /\ \E conversationId \in StoreConvIds :
       out' = [conversationId |-> conversationId,
               result |-> getMessagesForConversation(store, conversationId)]
  /\ UNCHANGED <<store, dispatched, before, steps, appVars, md>>

QueryNext == Query

QuerySpec == QueryInit /\ [][QueryNext]_vars

----------------------------------------------------------------------------
(* Strings *)

\* the characters of \s and of String.prototype.trim: each is one atom, the
\* ones TLA+ has no escape for are named by their code point
WhiteSpace ==
  {" ", "\n", "\t", "\r", "\f", "U+000B", "U+00A0", "U+1680",
   "U+2000", "U+2001", "U+2002", "U+2003", "U+2004", "U+2005", "U+2006",
   "U+2007", "U+2008", "U+2009", "U+200A", "U+2028", "U+2029", "U+202F",
   "U+205F", "U+3000", "U+FEFF"}

IsSpace(ch) == ch \in WhiteSpace

RECURSIVE trimStart(_)
trimStart(str) ==
  IF str # <<>> /\ IsSpace(Head(str)) THEN trimStart(Tail(str)) ELSE str

RECURSIVE trimEnd(_)
trimEnd(str) ==
  IF str # <<>> /\ IsSpace(str[Len(str)]) THEN trimEnd(SubSeq(str, 1, Len(str) - 1)) ELSE str

\* String.prototype.trim
trim(str) == trimEnd(trimStart(str))

\* str.slice(0, n)
slice0(str, n) == SubSeq(str, 1, IF Len(str) < n THEN Len(str) ELSE n)

\* the length of the longest prefix of str made of spaces (sp) or of none (~sp)
RECURSIVE runLength(_, _)
runLength(str, sp) ==
  IF str # <<>> /\ (IsSpace(Head(str)) <=> sp) THEN 1 + runLength(Tail(str), sp) ELSE 0

RECURSIVE splitWords(_)
splitWords(content) ==
  LET n == runLength(content, FALSE)
      word == SubSeq(content, 1, n)
      rest == SubSeq(content, n + 1, Len(content))
      m == runLength(rest, TRUE)
  IN IF rest = <<>> THEN <<word>>
     ELSE <<word>> \o splitWords(SubSeq(rest, m + 1, Len(rest)))

\* content.split(/(\s+)/): the pieces between the runs of whitespace and the
\* runs themselves, in order; a piece at either end may be empty
RECURSIVE splitSpaces(_)
splitSpaces(content) ==
  LET n == runLength(content, FALSE)
      word == SubSeq(content, 1, n)
      rest == SubSeq(content, n + 1, Len(content))
      m == runLength(rest, TRUE)
  IN IF rest = <<>> THEN <<word>>
     ELSE <<word, SubSeq(rest, 1, m)>> \o splitSpaces(SubSeq(rest, m + 1, Len(rest)))

RECURSIVE Concat(_)
Concat(pieces) == IF pieces = <<>> THEN <<>> ELSE Head(pieces) \o Concat(Tail(pieces))

----------------------------------------------------------------------------
(* utils/markdown: parseMarkdown.  Indices count from 0 as in the source. *)

\* str.startsWith(pat)
startsWith(str, pat) == Len(pat) <= Len(str) /\ SubSeq(str, 1, Len(pat)) = pat

\* str.indexOf(pat, from): the first index at or after from where pat occurs, else -1
indexOf(str, pat, from) ==
  LET hits == {k \in from..(Len(str) - Len(pat)) : SubSeq(str, k + 1, k + Len(pat)) = pat}
  IN IF hits = {} THEN -1 ELSE CHOOSE k \in hits : \A h \in hits : k <= h

\* str.slice(a, b) and str.slice(a)
slice(str, a, b) == SubSeq(str, a + 1, b)
sliceFrom(str, a) == SubSeq(str, a + 1, Len(str))

\* input.split('\n')
RECURSIVE split(_)
split(input) ==
  LET k == indexOf(input, <<"\n">>, 0)
  IN IF k < 0 THEN <<input>>
     ELSE <<slice(input, 0, k)>> \o split(sliceFrom(input, k + 1))

\* buf.join('\n')
RECURSIVE join(_)
join(buf) ==
  IF buf = <<>> THEN <<>>
  ELSE IF Len(buf) = 1 THEN buf[1]
  ELSE buf[1] \o <<"\n">> \o join(Tail(buf))

\* the backquote character is the atom "bq"
Tick == <<"bq">>
Star == <<"*">>
Stars == <<"*", "*">>
Fence == <<"bq", "bq", "bq">>

Node(type, value) == [type |-> type, value |-> value]
Br == [type |-> "br"]

\* line.trim().startsWith of three backquotes
isFence(line) == startsWith(trim(line), Fence)

\* variant: the block takes one line only
blockEndOneLine(lines, j) ==
  IF j < Len(lines) /\ ~isFence(lines[j + 1]) THEN j + 1 ELSE j

\* the inner while of a fenced block, entered with index j: the index of the
\* first fence line at or after j, or lines.length
RECURSIVE blockEnd(_, _)
blockEnd(lines, j) ==
  IF j < Len(lines) /\ ~isFence(lines[j + 1]) THEN blockEnd(lines, j + 1) ELSE j

\* variant: the value is scanned again and loses its marker characters
markedStripped(rest, marker, type) ==
  LET end == indexOf(rest, marker, Len(marker))
      plain(c) == c # "*" /\ c # "bq"
  IN IF end > 0
     THEN [node |-> Node(type, SelectSeq(slice(rest, Len(marker), end), plain)),
           rest |-> sliceFrom(rest, end + Len(marker)), stop |-> FALSE]
     ELSE [node |-> Node("text", rest), rest |-> <<>>, stop |-> FALSE]

\* variant: an unmatched marker is dropped from the text
markedDropsOpener(rest, marker, type) ==
  LET end == indexOf(rest, marker, Len(marker))
  IN IF end > 0
     THEN [node |-> Node(type, slice(rest, Len(marker), end)),
           rest |-> sliceFrom(rest, end + Len(marker)), stop |-> FALSE]
     ELSE [node |-> Node("text", sliceFrom(rest, Len(marker))), rest |-> <<>>,
           stop |-> FALSE]

\* variant: the value keeps the two markers
markedWithMarkers(rest, marker, type) ==
  LET end == indexOf(rest, marker, Len(marker))
  IN IF end > 0
     THEN [node |-> Node(type, slice(rest, 0, end + Len(marker))),
           rest |-> sliceFrom(rest, end + Len(marker)), stop |-> FALSE]
     ELSE [node |-> Node("text", rest), rest |-> <<>>, stop |-> FALSE]

\* variant: an unmatched marker alone becomes text and the scan goes on behind it
markedRetries(rest, marker, type) ==
  LET end == indexOf(rest, marker, Len(marker))
  IN IF end > 0
     THEN [node |-> Node(type, slice(rest, Len(marker), end)),
           rest |-> sliceFrom(rest, end + Len(marker)), stop |-> FALSE]
     ELSE [node |-> Node("text", marker), rest |-> sliceFrom(rest, Len(marker)),
           stop |-> FALSE]

\* a marker at the head of rest: the node between the marker and its next
\* occurrence, or the rest as text
marked(rest, marker, type) ==
  LET end == indexOf(rest, marker, Len(marker))
  IN IF end > 0
     THEN [node |-> Node(type, slice(rest, Len(marker), end)),
           rest |-> sliceFrom(rest, end + Len(marker)), stop |-> FALSE]
     ELSE [node |-> Node("text", rest), rest |-> <<>>, stop |-> FALSE]

\* variant: the lone asterisk is tried before the pair
scanItalicFirst(rest) ==
  LET idxCode == indexOf(rest, Tick, 0)
      idxItalic == indexOf(rest, Star, 0)
      candidates == {x \in {idxCode, idxItalic} : x >= 0}
      next == CHOOSE x \in candidates : \A y \in candidates : x <= y
  IN IF candidates = {}
     THEN [node |-> Node("text", rest), rest |-> rest, stop |-> TRUE]
     ELSE IF next > 0
     THEN [node |-> Node("text", slice(rest, 0, next)), rest |-> sliceFrom(rest, next),
           stop |-> FALSE]
     ELSE IF startsWith(rest, Tick) THEN marked(rest, Tick, "inlinecode")
     ELSE IF startsWith(rest, Star) THEN marked(rest, Star, "italic")
     ELSE marked(rest, Stars, "bold")

\* one iteration of the inline while, for a rest that is not empty: the node
\* pushed, the new rest, and whether the loop is left by break
scan(rest) ==
  LET idxCode == indexOf(rest, Tick, 0)
      idxBold == indexOf(rest, Stars, 0)
      idxItalic == indexOf(rest, Star, 0)
      candidates == {x \in {idxCode, idxBold, idxItalic} : x >= 0}
      next == CHOOSE x \in candidates : \A y \in candidates : x <= y
  IN IF candidates = {}
     THEN [node |-> Node("text", rest), rest |-> rest, stop |-> TRUE]
     ELSE IF next > 0
     THEN [node |-> Node("text", slice(rest, 0, next)), rest |-> sliceFrom(rest, next),
           stop |-> FALSE]
     ELSE IF startsWith(rest, Tick) THEN marked(rest, Tick, "inlinecode")
     ELSE IF startsWith(rest, Stars) THEN marked(rest, Stars, "bold")
     ELSE IF startsWith(rest, Star) THEN marked(rest, Star, "italic")
     ELSE [node |-> Node("text", rest), rest |-> <<>>, stop |-> FALSE]

\* parseMarkdown(input) before its first iteration
startParse(input) ==
  [input |-> input, lines |-> split(input), i |-> 0, rest |-> <<>>, parts |-> <<>>,
   nodes |-> <<>>, pc |-> "line"]

InlineChars == {"a", "*", "bq", " "}
BlockLines ==
  {<<>>, <<"a">>, <<"*", "a", "*">>, Fence, <<"\r", " ">> \o Fence, Fence \o <<"j", "s">>, <<"a">> \o Fence}

HelloWorld ==
  <<"Hello ", "*", "*", "world", "*", "*", ", this is ", "*", "great", "*", "!">>
UseFoo == <<"Use ", "bq", "foo()", "bq", " now">>
CodeHere == Fence \o <<"js", "\n", "code here">>
StarInBold == <<"*", "*", "a", "*", "b", "*", "*">>

\* lines of markup up to MaxInline characters, texts of up to MaxLines lines
\* with fences, and the examples of the documentation
MarkdownInputs ==
  SeqsUpTo(InlineChars, MaxInline)
    \cup {join(ls) : ls \in SeqsUpTo(BlockLines, MaxLines)}
    \cup {HelloWorld, UseFoo, CodeHere, StarInBold}

MarkdownInit ==
  /\ md \in {startParse(input) : input \in MarkdownInputs}
  /\ store = initialState
  /\ dispatched = <<>>
  /\ before = initialState
  /\ steps = 0
  /\ renames = <<>>
  /\ mode = "chat"
  /\ sending = FALSE
  /\ sends = <<>>
  /\ rec = Idle
  /\ out = NoCall

\* variant: the closing fence line is not skipped
MdLineKeepsClosing ==
  /\ md.pc = "line"
  /\ md' = IF md.i >= Len(md.lines) THEN [md EXCEPT !.pc = "done"]
           ELSE LET line == md.lines[md.i + 1]
                    end == blockEnd(md.lines, md.i + 1)
                    buf == SubSeq(md.lines, md.i + 2, end)
                IN IF isFence(line)
                   THEN [md EXCEPT !.nodes = Append(@, Node("codeblock", join(buf))),
                                   !.i = IF end < Len(md.lines) THEN end ELSE end + 1]
                   ELSE [md EXCEPT !.pc = "inline", !.rest = line, !.parts = <<>>]
  /\ UNCHANGED <<store, dispatched, before, steps, appVars, out>>

\* one test of the outer while, with the fenced block when the line opens one
MdLine ==
  /\ md.pc = "line"
  /\ md' = IF md.i >= Len(md.lines) THEN [md EXCEPT !.pc = "done"]
           ELSE LET line == md.lines[md.i + 1]
                    end == blockEnd(md.lines, md.i + 1)
                    buf == SubSeq(md.lines, md.i + 2, end)
                IN IF isFence(line)
                   THEN [md EXCEPT !.nodes = Append(@, Node("codeblock", join(buf))),
                                   !.i = end + 1]
                   ELSE [md EXCEPT !.pc = "inline", !.rest = line, !.parts = <<>>]
  /\ UNCHANGED <<store, dispatched, before, steps, appVars, out>>

\* variant: the text in front of a marker is pushed and the rest is kept
MdInlineKeepsRest ==
  /\ md.pc = "inline"
  /\ md.rest # <<>>
  /\ LET r == scan(md.rest)
     IN md' = [md EXCEPT !.parts = Append(@, r.node),
                         !.rest = IF r.node.type = "text" /\ r.rest # <<>> THEN md.rest
                                  ELSE r.rest,
                         !.pc = IF r.stop THEN "eol" ELSE "inline"]
  /\ UNCHANGED <<store, dispatched, before, steps, appVars, out>>

\* one iteration of the inline while
MdInline ==
  /\ md.pc = "inline"
  /\ md.rest # <<>>
  /\ LET r == scan(md.rest)
     IN md' = [md EXCEPT !.parts = Append(@, r.node), !.rest = r.rest,
                         !.pc = IF r.stop THEN "eol" ELSE "inline"]
  /\ UNCHANGED <<store, dispatched, before, steps, appVars, out>>

\* variant: an empty line gets no br
MdEndLineSkipsEmpty ==
  /\ md.pc = "eol" \/ (md.pc = "inline" /\ md.rest = <<>>)
  /\ md' = [md EXCEPT !.nodes = IF md.parts = <<>> THEN @ ELSE @ \o md.parts \o <<Br>>,
                      !.i = @ + 1, !.pc = "line", !.parts = <<>>, !.rest = <<>>]
  /\ UNCHANGED <<store, dispatched, before, steps, appVars, out>>

\* the inline while is left: the parts and the br are pushed
MdEndLine ==
  /\ md.pc = "eol" \/ (md.pc = "inline" /\ md.rest = <<>>)
  /\ md' = [md EXCEPT !.nodes = @ \o md.parts \o <<Br>>, !.i = @ + 1, !.pc = "line",
                      !.parts = <<>>, !.rest = <<>>]
  /\ UNCHANGED <<store, dispatched, before, steps, appVars, out>>

MarkdownNext ==
  \/ MdLine
  \/ MdInline
  \/ MdEndLine

MarkdownSpec == MarkdownInit /\ [][MarkdownNext]_vars

\* the function runs to its return once called
MarkdownRun == MarkdownSpec /\ WF_vars(MarkdownNext)

----------------------------------------------------------------------------
(* utils/aiModel *)

EMOTIONS == {"neutral", "happy", "sad", "angry"}

\* each phrase is one atom; the emoji and the typographic apostrophes of the
\* source are written in ASCII
toneAdjust(reply, emotion) ==
  LET r == trim(reply)
  IN IF r = <<>> THEN r
     ELSE CASE emotion = "happy" -> <<"Great news! (smile) ">> \o r
            [] emotion = "sad" ->
                 <<"I'm here for you. ">> \o r
                   \o <<" If there's anything else you'd like to share, I'll listen.">>
            [] emotion = "angry" ->
                 <<"I understand your frustration. ">> \o r
                   \o <<" Let's address this step by step.">>
            [] OTHER -> r

----------------------------------------------------------------------------
(* The senders: ChatView, EmotionChat, TalkToAI, Sidebar.                  *)
(* A handler runs to its next await in one step.  What it reads of the     *)
(* store is the state object of the render that created it (snap), not the *)
(* store of the moment.                                                    *)

TitleLimit == 40

\* the truncation marker as ChatView and EmotionChat write it (U+2026) and as
\* TalkToAI writes it (U+201A U+00C4 U+00B6)
Ellipsis == <<"U+2026">>
VoiceEllipsis == <<"U+201A", "U+00C4", "U+00B6">>

Apology == <<"Sorry, something went wrong. Please try again.">>
VoiceApology == <<"Sorry, something went wrong with voice request. Please try again.">>

\* text.slice(0, 40) + (text.length > 40 ? marker : '')
titleOf(text, marker) ==
  slice0(text, TitleLimit) \o (IF Len(text) > TitleLimit THEN marker ELSE <<>>)

LongText == [i \in 1..(TitleLimit + 1) |-> "x"]

\* what the composer hands to handleSend: trimmed and not empty
Texts == {<<"h", "i">>, LongText}
\* what the recognizer hands to onend as the final transcript
Transcripts == {<<>>, <<" ", "U+00A0">>, <<"\r", "y", "o", "\f">>}
\* the content of a response
Replies == {<<"a", " ", "b">>, <<"c">>}

RECURSIVE ApplyAll(_, _, _)
ApplyAll(state, actions, now) ==
  IF actions = <<>> THEN state
  ELSE ApplyAll(reducer(state, Head(actions), FreshConvId(state), now), Tail(actions), now)

RECURSIVE CountRenames(_, _)
CountRenames(counts, actions) ==
  IF actions = <<>> THEN counts
  ELSE LET a == Head(actions)
           n == IF a.type = "RENAME_CONVERSATION"
                THEN Put(counts, a.id, (IF a.id \in DOMAIN counts THEN counts[a.id] ELSE 0) + 1)
                ELSE counts
       IN CountRenames(n, Tail(actions))

\* a handler step dispatches the actions, in order
DispatchAll(actions) ==
  /\ store' = ApplyAll(store, actions, Now)
  /\ renames' = CountRenames(renames, actions)
  /\ UNCHANGED <<history, mode>>

NewSend(kind, snap, text) ==
  [kind |-> kind, pc |-> "timeout", snap |-> snap, text |-> text,
   conv |-> Null, user |-> Null, asst |-> Null,
   reply |-> <<>>, tokens |-> <<>>, i |-> 0, acc |-> <<>>, label |-> Null,
   dones |-> 0, cancels |-> 0]

Finished(run, pc) == [run EXCEPT !.pc = pc, !.snap = NoSnap, !.tokens = <<>>]

\* 'm_' + Math.random(): ids no message has yet
UserId(k) == MsgName[2 * k - 1]
AssistantId(k) == MsgName[2 * k]

\* ensureConversation
ensureConversation(snap) ==
  IF getActiveConversation(snap) = NoConversation
  THEN <<[type |-> "NEW_CONVERSATION"]>> ELSE <<>>

\* ChatView / EmotionChat handleSend: the conversation the messages go to
sendTarget(snap) ==
  LET active == getActiveConversation(snap)
      recentActiveId == IF active # NoConversation THEN Prop(active, "id")
                        ELSE IF snap.convKeys # <<>> THEN snap.convKeys[Len(snap.convKeys)]
                        ELSE Null
      recent == getActiveConversation([snap EXCEPT !.activeId = recentActiveId])
      conv == IF recent # NoConversation THEN recent ELSE getActiveConversation(snap)
  IN IF conv # NoConversation THEN Prop(conv, "id") ELSE snap.activeId

setTitleAlways(snap, text) ==
  LET active == getActiveConversation(snap)
  IN IF active # NoConversation
     THEN <<[type |-> "RENAME_CONVERSATION", id |-> Prop(active, "id"), title |-> titleOf(text, Ellipsis)]>>
     ELSE <<>>

\* ChatView / EmotionChat setTitleIfNeeded
setTitleIfNeeded(snap, text) ==
  LET active == getActiveConversation(snap)
      conv == getActiveConversation(
                [snap EXCEPT !.activeId = IF active # NoConversation THEN Prop(active, "id") ELSE Null])
  IN IF conv # NoConversation /\ "title" \in DOMAIN conv /\ conv.title = NewChat
     THEN <<[type |-> "RENAME_CONVERSATION", id |-> Prop(conv, "id"),
             title |-> titleOf(text, Ellipsis)]>>
     ELSE <<>>

Message(id, role, content, now) ==
  [id |-> id, role |-> role, content |-> content, createdAt |-> now]

UpdateContent(id, content) ==
  [type |-> "UPDATE_MESSAGE", id |-> id, patch |-> [content |-> content]]

\* variant: the placeholder is added before the user message
handleSendActionsPlaceholderFirst(snap, text, userId, assistantId) ==
  LET conversationId == sendTarget(snap)
      userMsg == Message(userId, "user", text, Now)
      assistantMsg == Message(assistantId, "assistant", <<>>, Now)
  IN <<[type |-> "ADD_MESSAGE", conversationId |-> conversationId, message |-> assistantMsg]>>
       \o setTitleIfNeeded(snap, text)
       \o <<[type |-> "ADD_MESSAGE", conversationId |-> conversationId, message |-> userMsg]>>

\* ChatView / EmotionChat handleSend after the zero-delay wait: what it
\* dispatches before the request, in order
handleSendActions(snap, text, userId, assistantId) ==
  LET conversationId == sendTarget(snap)
      userMsg == Message(userId, "user", text, Now)
      assistantMsg == Message(assistantId, "assistant", <<>>, Now)
  IN <<[type |-> "ADD_MESSAGE", conversationId |-> conversationId, message |-> userMsg]>>
       \o setTitleIfNeeded(snap, text)
       \o <<[type |-> "ADD_MESSAGE", conversationId |-> conversationId, message |-> assistantMsg]>>

\* TalkToAI sendVoiceMessage: the conversation the messages go to
voiceTarget(snap) ==
  LET currentActive == getActiveConversation(snap)
  IN IF currentActive # NoConversation THEN Prop(currentActive, "id") ELSE snap.activeId

\* TalkToAI sendVoiceMessage after the zero-delay wait: what it dispatches
\* before the request, in order
voiceSendActions(snap, text, userId, assistantId) ==
  LET conversationId == voiceTarget(snap)
      userMsg == Message(userId, "user", trim(text), Now)
      conv == getActiveConversation([snap EXCEPT !.activeId = conversationId])
      rename == IF conv # NoConversation /\ conv.title = NewChat
                THEN <<[type |-> "RENAME_CONVERSATION", id |-> conversationId,
                        title |-> titleOf(text, VoiceEllipsis)]>>
                ELSE <<>>
      assistantMsg == Message(assistantId, "assistant", <<>>, Now)
  IN <<[type |-> "ADD_MESSAGE", conversationId |-> conversationId, message |-> userMsg]>>
       \o rename
       \o <<[type |-> "ADD_MESSAGE", conversationId |-> conversationId, message |-> assistantMsg]>>

\* the effect of ChatView that opens a first conversation has yet to run
EffectPending ==
  /\ mode = "chat"
  /\ getActiveConversation(store) = NoConversation
  /\ store.convKeys = <<>>

\* ChatView useEffect
MountEffect ==
  /\ EffectPending
  /\ DispatchAll(<<[type |-> "NEW_CONVERSATION"]>>)
  /\ UNCHANGED <<sending, sends, rec>>

\* handleSend up to its first await, in ChatView (mode chat) or EmotionChat
HandleSend ==
  /\ ~EffectPending
  /\ ~sending
  /\ Len(sends) + Len(rec.live) < MaxSends
  /\ \E text \in Texts :
       /\ sends' = Append(sends, NewSend(IF mode = "chat" THEN "typed" ELSE "emotion", store, text))
       /\ DispatchAll(ensureConversation(store))
  /\ UNCHANGED <<sending, rec>>

\* handleSend from the zero-delay wait to the request
SendAfterTimeout(k) ==
  /\ sends[k].kind \in {"typed", "emotion"}
  /\ sends[k].pc = "timeout"
  /\ LET run == sends[k]
         conversationId == sendTarget(run.snap)
     IN /\ DispatchAll(handleSendActions(run.snap, run.text, UserId(k), AssistantId(k)))
        /\ sends' = [sends EXCEPT ![k] = [run EXCEPT !.pc = "request", !.conv = conversationId,
                                                      !.user = UserId(k), !.asst = AssistantId(k)]]
  /\ sending' = TRUE
  /\ UNCHANGED rec

\* the response arrives: mockStream starts
SendReply(k) ==
  /\ sends[k].kind \in {"typed", "emotion"}
  /\ sends[k].pc = "request"
  /\ \E content \in Replies, label \in EMOTIONS :
       /\ sends[k].kind = "typed" => label = "neutral"
       /\ sends' = [sends EXCEPT ![k] = [@ EXCEPT !.pc = "stream", !.reply = content,
                                                   !.tokens = splitSpaces(content), !.i = 0,
                                                   !.acc = <<>>,
                                                   !.label = IF sends[k].kind = "typed" THEN Null ELSE label]]
  /\ DispatchAll(<<>>)
  /\ UNCHANGED <<sending, rec>>

SendFailsSilently(k) ==
  /\ sends[k].kind \in {"typed", "emotion"}
  /\ sends[k].pc = "request"
  /\ DispatchAll(<<>>)
  /\ sends' = [sends EXCEPT ![k] = Finished(@, "failed")]
  /\ sending' = FALSE
  /\ UNCHANGED rec

\* variant: the catch block leaves the sending flag
SendFailsKeepsFlag(k) ==
  /\ sends[k].kind \in {"typed", "emotion"}
  /\ sends[k].pc = "request"
  /\ DispatchAll(<<UpdateContent(sends[k].asst, Apology)>>)
  /\ sends' = [sends EXCEPT ![k] = Finished(@, "failed")]
  /\ UNCHANGED <<sending, rec>>

\* the request (or predictEmotion) throws: the catch block
SendFails(k) ==
  /\ sends[k].kind \in {"typed", "emotion"}
  /\ sends[k].pc = "request"
  /\ DispatchAll(<<UpdateContent(sends[k].asst, Apology)>>)
  /\ sends' = [sends EXCEPT ![k] = Finished(@, "failed")]
  /\ sending' = FALSE
  /\ UNCHANGED rec

\* variant: the chunk is written to the user message of the send
chatChunkOnUser(run, chunk) == UpdateContent(run.user, chunk)

\* ChatView: the chunk callback handed to mockStream
chatChunk(run, chunk) ==
  LET prev == IF run.asst \in DOMAIN run.snap.messages
              THEN run.snap.messages[run.asst].content ELSE <<>>
  IN UpdateContent(run.asst, prev \o chunk)

\* EmotionChat: the chunk callback handed to mockStream
emotionChunk(run, chunk) == UpdateContent(run.asst, toneAdjust(run.acc \o chunk, run.label))

\* one firing of mockStream's interval timer
StreamTick(k) ==
  /\ sends[k].pc = "stream"
  /\ LET run == sends[k]
     IN IF run.i >= Len(run.tokens)
        THEN /\ DispatchAll(<<>>)
             /\ sends' = [sends EXCEPT ![k] = Finished([run EXCEPT !.dones = @ + 1], "done")]
             /\ sending' = FALSE
        ELSE LET chunk == run.tokens[run.i + 1]
             IN /\ DispatchAll(<<IF run.kind = "typed" THEN chatChunk(run, chunk)
                           ELSE emotionChunk(run, chunk)>>)
                /\ sends' = [sends EXCEPT ![k] = [run EXCEPT !.i = @ + 1, !.acc = @ \o chunk]]
                /\ UNCHANGED sending
  /\ UNCHANGED rec

cancelKeepsTimer(run) == run

cancelSignalsDone(run) ==
  IF run.pc = "stream" THEN [run EXCEPT !.pc = "cancelled"]
  ELSE [run EXCEPT !.dones = @ + 1]

\* the handle mockStream returns, () => clearInterval(timer): a timer that
\* is still set is cleared, a timer that is not is left alone
cancel(run) == IF run.pc = "stream" THEN [run EXCEPT !.pc = "cancelled"] ELSE run

\* TalkToAI startListening, the click on the button while it shows "Talk to
\* AI", up to r.start(): the error is cleared and a recognizer is running
\* whose onend holds this render's sendVoiceMessage; listening is set by
\* onstart only.  Each recognizer can bring one send.
StartListening ==
  /\ mode = "chat"
  /\ ~EffectPending
  /\ ~rec.listening
  /\ Len(sends) + Len(rec.live) < MaxSends
  /\ rec' = [rec EXCEPT !.error = Null, !.live = Append(@, Recognizer(store))]
  /\ DispatchAll(<<>>)
  /\ UNCHANGED <<sending, sends>>

\* startListening without a SpeechRecognition constructor
StartUnsupported ==
  /\ mode = "chat"
  /\ ~EffectPending
  /\ ~rec.listening
  /\ rec' = [rec EXCEPT !.error = "unsupported"]
  /\ DispatchAll(<<>>)
  /\ UNCHANGED <<sending, sends>>

\* startListening when the constructor or r.start() throws: the catch block
StartThrows ==
  /\ mode = "chat"
  /\ ~EffectPending
  /\ ~rec.listening
  /\ rec' = [rec EXCEPT !.listening = FALSE, !.error = "start"]
  /\ DispatchAll(<<>>)
  /\ UNCHANGED <<sending, sends>>

\* r.onstart of the i-th running recognizer
RecognitionStart(i) ==
  /\ ~rec.live[i].started
  /\ rec' = [rec EXCEPT !.listening = TRUE, !.live[i].started = TRUE]
  /\ DispatchAll(<<>>)
  /\ UNCHANGED <<sending, sends>>

\* r.onerror of the i-th running recognizer
RecognitionError(i) ==
  /\ \E error \in RecognitionErrors : rec' = [rec EXCEPT !.error = errorOf(error)]
  /\ DispatchAll(<<>>)
  /\ UNCHANGED <<sending, sends>>

\* TalkToAI stopListening, the click on the button while it shows "Stop":
\* r.stop() lets the recognizer come to its end, which onend reports
StopListening ==
  /\ mode = "chat"
  /\ ~EffectPending
  /\ rec.listening
  /\ rec' = [rec EXCEPT !.listening = FALSE]
  /\ DispatchAll(<<>>)
  /\ UNCHANGED <<sending, sends>>

\* variant: the transcript is sent without a test
RecognitionEndSendsBlank(i) ==
  /\ \E transcript \in Transcripts :
       /\ Len(sends) < MaxSends
       /\ sends' = Append(sends, NewSend("voice", rec.live[i].snap, transcript))
       /\ DispatchAll(ensureConversation(rec.live[i].snap))
  /\ rec' = [rec EXCEPT !.listening = FALSE, !.live = Without(@, i)]
  /\ UNCHANGED sending

\* r.onend of the i-th running recognizer, and sendVoiceMessage up to its
\* first await: whether or not the component is listening
RecognitionEnd(i) ==
  /\ \E transcript \in Transcripts :
       IF trim(transcript) = <<>>
       THEN /\ DispatchAll(<<>>)
            /\ UNCHANGED sends
       ELSE /\ Len(sends) < MaxSends
            /\ sends' = Append(sends, NewSend("voice", rec.live[i].snap, transcript))
            /\ DispatchAll(ensureConversation(rec.live[i].snap))
  /\ rec' = [rec EXCEPT !.listening = FALSE, !.live = Without(@, i)]
  /\ UNCHANGED sending

\* sendVoiceMessage from the zero-delay wait to the request
VoiceAfterTimeout(k) ==
  /\ sends[k].kind = "voice"
  /\ sends[k].pc = "timeout"
  /\ LET run == sends[k]
         conversationId == voiceTarget(run.snap)
     IN /\ DispatchAll(voiceSendActions(run.snap, run.text, UserId(k), AssistantId(k)))
        /\ sends' = [sends EXCEPT ![k] = [run EXCEPT !.pc = "request", !.conv = conversationId,
                                                      !.user = UserId(k), !.asst = AssistantId(k)]]
  /\ UNCHANGED <<sending, rec>>

\* voiceChat resolves
VoiceReply(k) ==
  /\ sends[k].kind = "voice"
  /\ sends[k].pc = "request"
  /\ \E reply \in Replies :
       /\ DispatchAll(<<UpdateContent(sends[k].asst, reply)>>)
       /\ sends' = [sends EXCEPT ![k] = Finished([@ EXCEPT !.reply = reply], "done")]
  /\ UNCHANGED <<sending, rec>>

\* voiceChat throws: the catch block
VoiceFails(k) ==
  /\ sends[k].kind = "voice"
  /\ sends[k].pc = "request"
  /\ DispatchAll(<<UpdateContent(sends[k].asst, VoiceApology)>>)
  /\ sends' = [sends EXCEPT ![k] = Finished(@, "failed")]
  /\ UNCHANGED <<sending, rec>>

\* Sidebar: the "+ New chat" button
SidebarNewChat ==
  /\ ~EffectPending
  /\ Len(store.convKeys) < MaxConvs
  /\ DispatchAll(<<[type |-> "NEW_CONVERSATION"]>>)
  /\ UNCHANGED <<sending, sends, rec>>

\* Sidebar: a click on a listed conversation
SidebarSetActive ==
  /\ ~EffectPending
  /\ \E c \in DOMAIN store.conversations :
       /\ c # store.activeId
       /\ DispatchAll(<<[type |-> "SET_ACTIVE", id |-> c]>>)
  /\ UNCHANGED <<sending, sends, rec>>

----------------------------------------------------------------------------
(* mockStream and a holder of its handle: a stream started by handleSend, *)
(* left to run or cancelled at any moment, any number of times            *)

StreamReplies == Replies \cup {<<>>, <<" ", "d">>, <<"e", " ", "\r", "f", "U+2028">>}

\* the state in which handleSend calls mockStream(content, ...), for a first
\* send into a new conversation
StreamStart(kind, text, content, label) ==
  LET opened == ApplyAll(initialState, <<[type |-> "NEW_CONVERSATION"]>>, Now)
      actions == handleSendActions(opened, text, UserId(1), AssistantId(1))
      run == [NewSend(kind, opened, text) EXCEPT
                !.pc = "stream", !.conv = sendTarget(opened),
                !.user = UserId(1), !.asst = AssistantId(1),
                !.reply = content, !.tokens = splitSpaces(content), !.label = label]
  IN [store |-> ApplyAll(opened, actions, Now),
      renames |-> CountRenames(<<>>, actions),
      sends |-> <<run>>]

StreamInit ==
  /\ \E kind \in {"typed", "emotion"}, content \in StreamReplies, label \in EMOTIONS :
       /\ kind = "typed" => label = "neutral"
       /\ LET start == StreamStart(kind, <<"h", "i">>, content,
                                   IF kind = "typed" THEN Null ELSE label)
          IN /\ store = start.store
             /\ renames = start.renames
             /\ sends = start.sends
       /\ mode = IF kind = "typed" THEN "chat" ELSE "emotion"
  /\ sending = TRUE
  /\ rec = Idle
  /\ dispatched = <<>>
  /\ before = initialState
  /\ steps = 0
  /\ out = NoCall
  /\ md = NoParse

\* the handle is invoked
StreamCancel(k) ==
  /\ sends[k].pc \in {"stream", "cancelled", "done"}
  /\ sends[k].cancels < MaxCancels
  /\ sends' = [sends EXCEPT ![k] = [cancel(sends[k]) EXCEPT !.cancels = @ + 1]]
  /\ DispatchAll(<<>>)
  /\ UNCHANGED <<sending, rec>>

StreamNext ==
  \/ \E k \in DOMAIN sends : StreamTick(k)
  \/ \E k \in DOMAIN sends : StreamCancel(k)

StreamSpec == StreamInit /\ [][StreamNext]_vars

----------------------------------------------------------------------------
(* The application *)

Next ==
  \/ MountEffect
  \/ HandleSend
  \/ \E k \in DOMAIN sends : SendAfterTimeout(k)
  \/ \E k \in DOMAIN sends : SendReply(k)
  \/ \E k \in DOMAIN sends : SendFails(k)
  \/ \E k \in DOMAIN sends : StreamTick(k)
  \/ StartListening
  \/ StartUnsupported
  \/ StartThrows
  \/ \E i \in DOMAIN rec.live : RecognitionStart(i)
  \/ \E i \in DOMAIN rec.live : RecognitionError(i)
  \/ StopListening
  \/ \E i \in DOMAIN rec.live : RecognitionEnd(i)
  \/ \E k \in DOMAIN sends : VoiceAfterTimeout(k)
  \/ \E k \in DOMAIN sends : VoiceReply(k)
  \/ \E k \in DOMAIN sends : VoiceFails(k)
  \/ SidebarNewChat
  \/ SidebarSetActive

Spec == Init /\ [][Next]_vars

\* the request of send k resolves or rejects; the interval timer of its stream fires
Settles(k) == k \in DOMAIN sends /\ (SendReply(k) \/ SendFails(k))
TimerFires(k) == k \in DOMAIN sends /\ StreamTick(k)

\* how far every send has come; each of the two steps above moves it on
Progress == [k \in DOMAIN sends |-> <<sends[k].pc, sends[k].i>>]

\* the typed sends of ChatView or EmotionChat alone
TypedNext ==
  \/ MountEffect
  \/ HandleSend
  \/ \E k \in DOMAIN sends : SendAfterTimeout(k)
  \/ \E k \in DOMAIN sends : SendReply(k)
  \/ \E k \in DOMAIN sends : SendFails(k)
  \/ \E k \in DOMAIN sends : StreamTick(k)

\* the typed sends when every request settles and every stream timer keeps firing
TypedLive ==
  /\ Init
  /\ [][TypedNext]_vars
  /\ \A k \in 1..MaxSends : WF_Progress(Settles(k)) /\ WF_Progress(TimerFires(k))

----------------------------------------------------------------------------
(* Claims about the store under any sequence of actions (StoreSpec) and *)
(* about its read accessors (QuerySpec)                                 *)

LastAction == dispatched[1]
LastIs(type) == dispatched # <<>> /\ LastAction.type = type
\* the reducer threw on the action dispatched last
Threw == Len(dispatched) = 2

\* C1: every id in any conversation's messageIds is a key of messages (a
\* conversation that has no messageIds contains no id).
C1_MessageIdsResolve ==
  \A c \in DOMAIN store.conversations :
    "messageIds" \in DOMAIN store.conversations[c] =>
      Range(store.conversations[c].messageIds) \subseteq DOMAIN store.messages

C1_Witness ==
  /\ LastIs("UPDATE_MESSAGE")
  /\ store # before
  /\ \E c \in DOMAIN store.conversations :
       /\ "messageIds" \in DOMAIN store.conversations[c]
       /\ Len(store.conversations[c].messageIds) >= 2

\* m and n have the same id, role and createdAt, or lack the same of them
SameIdentity(m, n) ==
  \A f \in {"id", "role", "createdAt"} :
    /\ f \in DOMAIN m <=> f \in DOMAIN n
    /\ f \in DOMAIN m => m[f] = n[f]

\* C6 as stated: no store action changes the id, role or createdAt stored
\* under a message key that exists.
C6_Original ==
  \A k \in DOMAIN before.messages :
    k \in DOMAIN store.messages /\ SameIdentity(before.messages[k], store.messages[k])

\* the actions that can rewrite the identity fields stored under key k
Rewrites(k) ==
  \/ /\ LastIs("UPDATE_MESSAGE")
     /\ LastAction.id = k
     /\ DOMAIN LastAction.patch \cap {"id", "role", "createdAt"} # {}
  \/ /\ LastIs("ADD_MESSAGE")
     /\ LastAction.message.id = k
     /\ LastAction.conversationId \in DOMAIN before.conversations

\* C6 (amended): the id, role and createdAt stored under an existing message
\* key are changed by no store action other than an UPDATE_MESSAGE of that key
\* whose patch names one of these fields and an ADD_MESSAGE into an existing
\* conversation that reuses the id;
\* an UPDATE_MESSAGE whose patch carries only content changes content only.
C6_IdentityKept ==
  \A k \in DOMAIN before.messages :
    ~Rewrites(k) =>
      k \in DOMAIN store.messages /\ SameIdentity(before.messages[k], store.messages[k])

C6_Witness ==
  /\ LastIs("UPDATE_MESSAGE")
  /\ DOMAIN LastAction.patch = {"content"}
  /\ LastAction.id \in DOMAIN before.messages
  /\ "content" \in DOMAIN before.messages[LastAction.id]
  /\ store.messages[LastAction.id].content # before.messages[LastAction.id].content

\* C8: every store action keeps every conversation, keeps its messageIds as a
\* prefix of the new messageIds, and keeps every key of messages.
C8_AppendOnly ==
  /\ \A c \in DOMAIN before.conversations :
       /\ c \in DOMAIN store.conversations
       /\ "messageIds" \in DOMAIN before.conversations[c] =>
            /\ "messageIds" \in DOMAIN store.conversations[c]
            /\ IsPrefix(before.conversations[c].messageIds, store.conversations[c].messageIds)
  /\ DOMAIN before.messages \subseteq DOMAIN store.messages

C8_Witness ==
  /\ LastIs("ADD_MESSAGE")
  /\ ~Threw
  /\ LastAction.conversationId \in DOMAIN before.conversations
  /\ before.conversations[LastAction.conversationId].messageIds # <<>>
  /\ LastAction.message.id \notin DOMAIN before.messages
  /\ Len(store.conversations[LastAction.conversationId].messageIds)
       = Len(before.conversations[LastAction.conversationId].messageIds) + 1

AddAction(c, m) == [type |-> "ADD_MESSAGE", conversationId |-> c, message |-> m]

\* C9: from any store state, ADD_MESSAGE dispatched twice with the same
\* existing conversation and the same message appends the id twice, in order,
\* and leaves one entry under that id in messages, holding that message.
C9_DuplicateAdd ==
  \A c \in DOMAIN store.conversations, m \in StoreMessages :
    LET once == reducer(store, AddAction(c, m), Null, Now)
        twice == IF once = TypeError THEN TypeError
                 ELSE reducer(once, AddAction(c, m), Null, Now)
    IN /\ twice # TypeError
       /\ twice.conversations[c].messageIds
            = store.conversations[c].messageIds \o <<m.id, m.id>>
       /\ DOMAIN twice.messages = DOMAIN store.messages \cup {m.id}
       /\ twice.messages[m.id] = m
       /\ \A k \in DOMAIN store.messages \ {m.id} : twice.messages[k] = store.messages[k]

\* C10: ADD_MESSAGE or RENAME_CONVERSATION of a conversation id that is no key
\* of conversations returns the state unchanged.
C10_UnknownConversationNoOp ==
  /\ (LastIs("ADD_MESSAGE") /\ LastAction.conversationId \notin DOMAIN before.conversations)
       => (~Threw /\ store = before)
  /\ (LastIs("RENAME_CONVERSATION") /\ LastAction.id \notin DOMAIN before.conversations)
       => store = before

\* C11: UPDATE_MESSAGE of an id that is no key of messages returns the state
\* unchanged; of an id that is a key, it gives that message the fields of the
\* patch, keeps its other fields, and changes nothing else of the state.
C11_UpdateMessageFrame ==
  LastIs("UPDATE_MESSAGE") =>
    IF LastAction.id \notin DOMAIN before.messages
    THEN store = before
    ELSE /\ store.conversations = before.conversations
         /\ store.convKeys = before.convKeys
         /\ store.activeId = before.activeId
         /\ DOMAIN store.messages = DOMAIN before.messages
         /\ \A k \in DOMAIN before.messages \ {LastAction.id} :
              store.messages[k] = before.messages[k]
         /\ DOMAIN store.messages[LastAction.id] =
              DOMAIN before.messages[LastAction.id] \cup DOMAIN LastAction.patch
         /\ \A f \in DOMAIN store.messages[LastAction.id] :
              store.messages[LastAction.id][f] =
                IF f \in DOMAIN LastAction.patch THEN LastAction.patch[f]
                ELSE before.messages[LastAction.id][f]

\* C14: SET_ACTIVE makes the given id the activeId, whether or not it names a
\* conversation, and changes nothing else; getActiveConversation yields the
\* conversation stored under activeId when there is one and none otherwise,
\* so none after a SET_ACTIVE of an unknown id.
C14_SetActiveUnchecked ==
  /\ LastIs("SET_ACTIVE") => store = [before EXCEPT !.activeId = LastAction.id]
  /\ getActiveConversation(store) =
       IF store.activeId \in DOMAIN store.conversations
       THEN store.conversations[store.activeId]
       ELSE NoConversation
  /\ (LastIs("SET_ACTIVE") /\ LastAction.id \notin DOMAIN before.conversations)
       => getActiveConversation(store) = NoConversation

\* the messages of ids that resolve, in the order of ids
RECURSIVE Resolved(_, _)
Resolved(ids, messages) ==
  IF ids = <<>> THEN <<>>
  ELSE (IF Head(ids) \in DOMAIN messages THEN <<messages[Head(ids)]>> ELSE <<>>)
         \o Resolved(Tail(ids), messages)

\* C15: getMessagesForConversation returns, in messageIds order, the records
\* of the ids of the conversation that are keys of messages, skipping the ids
\* that are not, and the empty sequence for an unknown conversation id.
C15_MessagesInOrder ==
  out # NoCall =>
    out.result =
      IF out.conversationId \in DOMAIN store.conversations
      THEN Resolved(store.conversations[out.conversationId].messageIds, store.messages)
      ELSE <<>>

\* C16: NEW_CONVERSATION inserts one conversation, under an id that was no
\* key of conversations, titled 'New chat' and without messages, makes that id
\* the activeId, and leaves messages and every earlier conversation as they
\* were.
C16_NewConversationFrame ==
  LastIs("NEW_CONVERSATION") =>
    \E id \in DOMAIN store.conversations \ DOMAIN before.conversations :
      /\ DOMAIN store.conversations = DOMAIN before.conversations \cup {id}
      /\ store.conversations[id].id = id
      /\ store.conversations[id].title = NewChat
      /\ store.conversations[id].messageIds = <<>>
      /\ store.activeId = id
      /\ store.messages = before.messages
      /\ \A c \in DOMAIN before.conversations :
           store.conversations[c] = before.conversations[c]

\* a second conversation has been opened while the first, which holds a
\* message, was active
C16_Witness ==
  /\ LastIs("NEW_CONVERSATION")
  /\ before.activeId \in DOMAIN before.conversations
  /\ "messageIds" \in DOMAIN before.conversations[before.activeId]
  /\ before.conversations[before.activeId].messageIds # <<>>
  /\ store.activeId # before.activeId
  /\ Len(store.convKeys) = Len(before.convKeys) + 1

Titles(state) == [c \in DOMAIN state.conversations |-> state.conversations[c].title]

HasRename(actions) == \E i \in DOMAIN actions : actions[i].type = "RENAME_CONVERSATION"

\* what a transcript must be for onend to send it
Spoken == {t \in Transcripts : trim(t) # <<>>}

\* C12: when the active conversation's title is not the sentinel, a send made
\* from that state (typed, emotion or voice) dispatches no RENAME_CONVERSATION
\* and leaves every title as it is; and no ADD_MESSAGE changes a title.
C12_NoRenameAfterRename ==
  /\ LET active == getActiveConversation(store)
     IN (active # NoConversation /\ "title" \in DOMAIN active /\ active.title # NewChat) =>
          /\ \A text \in Texts :
               LET actions == handleSendActions(store, text, MsgName[7], MsgName[8])
               IN /\ ~HasRename(actions)
                  /\ Titles(ApplyAll(store, actions, Now)) = Titles(store)
          /\ \A text \in Spoken :
               LET actions == voiceSendActions(store, text, MsgName[7], MsgName[8])
               IN /\ ~HasRename(actions)
                  /\ Titles(ApplyAll(store, actions, Now)) = Titles(store)
  /\ LastIs("ADD_MESSAGE") => Titles(store) = Titles(before)

\* the active conversation has just been renamed to 'Custom' and holds no
\* message yet
C12_Witness ==
  /\ LastIs("RENAME_CONVERSATION")
  /\ LastAction.title = Custom
  /\ LastAction.id = store.activeId
  /\ LastAction.id \in DOMAIN store.conversations
  /\ store.conversations[LastAction.id].title = Custom
  /\ "messageIds" \in DOMAIN store.conversations[LastAction.id]
  /\ store.conversations[LastAction.id].messageIds = <<>>

----------------------------------------------------------------------------
(* Claims about the application (Spec) *)

Completed(k) == sends[k].pc = "done"

\* C2: in ChatView, when the stream of a reply has run to completion, the
\* assistant message's content is the full reply.
C2_StreamYieldsReply ==
  \A k \in DOMAIN sends :
    (sends[k].kind = "typed" /\ Completed(k) /\ sends[k].asst \in DOMAIN store.messages)
      => store.messages[sends[k].asst].content = sends[k].reply

\* send k delivers a chunk in this step
Chunk(k) ==
  /\ k \in DOMAIN sends
  /\ sends[k].pc = "stream"
  /\ sends'[k].i = sends[k].i + 1

\* C3: during a stream (ChatView, EmotionChat) each update of the streamed
\* message keeps the content it had as a prefix of the content it gets.
C3_StreamAppendOnly ==
  [][\A k \in DOMAIN sends :
       (Chunk(k) /\ sends[k].asst \in DOMAIN store.messages)
         => IsPrefix(store.messages[sends[k].asst].content,
                     store'.messages[sends[k].asst].content)]_vars

RenameCount(counts, c) == IF c \in DOMAIN counts THEN counts[c] ELSE 0

\* C4: under any interleaving of typed and voice sends, a conversation's
\* automatic rename is dispatched at most once, and only while its title in
\* the store is still the sentinel.
C4_RenameOnce ==
  [][\A c \in DOMAIN renames' :
       RenameCount(renames', c) > RenameCount(renames, c)
         => /\ RenameCount(renames, c) = 0
            /\ store.conversations[c].title = NewChat]_vars

\* send k dispatches its messages in this step
Sent(k) ==
  /\ k \in DOMAIN sends
  /\ sends[k].pc = "timeout"
  /\ sends'[k].pc = "request"

\* C13: on every send path the title a send assigns is its user message's
\* stored content when that has at most 40 characters, and otherwise the
\* content's first 40 characters followed by one truncation marker (the
\* marker of the path).
C13_TitleIsPrefix ==
  [][\A k \in DOMAIN sends : \A c \in DOMAIN renames' :
       (/\ Sent(k)
        /\ RenameCount(renames', c) > RenameCount(renames, c)
        /\ c \in DOMAIN store'.conversations
        /\ sends'[k].user \in DOMAIN store'.messages)
         => LET content == store'.messages[sends'[k].user].content
            IN store'.conversations[c].title
                 \in {titleOf(content, Ellipsis), titleOf(content, VoiceEllipsis)}]_vars

\* C5: activeId is unset or a key of conversations.
C5_ActiveIdValid ==
  store.activeId = Null \/ store.activeId \in DOMAIN store.conversations

\* a listed conversation other than the newest has been opened
C5_Witness ==
  /\ Len(store.convKeys) >= 2
  /\ store.activeId = store.convKeys[1]

Owners(m) ==
  {c \in DOMAIN store.conversations : m \in Range(store.conversations[c].messageIds)}

\* C7: each key of messages is referenced by exactly one conversation.
C7_OneOwner ==
  \A m \in DOMAIN store.messages : Cardinality(Owners(m)) = 1

\* two sends have put their messages into different conversations
C7_Witness ==
  /\ Cardinality(DOMAIN store.messages) >= 4
  /\ \E c, d \in DOMAIN store.conversations :
       /\ c # d
       /\ store.conversations[c].messageIds # <<>>
       /\ store.conversations[d].messageIds # <<>>

\* the apology of the sender of a run
ApologyOf(run) == IF run.kind = "voice" THEN VoiceApology ELSE Apology

\* the request of send k fails in this step
Fails(k) ==
  /\ k \in DOMAIN sends
  /\ sends[k].pc = "request"
  /\ sends'[k].pc = "failed"

C20_Failed ==
  \A k \in DOMAIN sends :
    sends[k].pc = "failed" =>
      /\ sends[k].tokens = <<>>
      /\ sends[k].asst \in DOMAIN store.messages
           => store.messages[sends[k].asst].content = ApologyOf(sends[k])

C20_Step ==
  \A k \in DOMAIN sends :
    /\ Fails(k) =>
         /\ store' = IF sends[k].asst \in DOMAIN store.messages
                     THEN [store EXCEPT !.messages[sends[k].asst].content = ApologyOf(sends[k])]
                     ELSE store
         /\ sends[k].kind # "voice" => sending' = FALSE
    /\ sends[k].pc = "failed" => sends'[k] = sends[k]

\* C20: when the request of a send fails, the sender's catch block gives the
\* send's pending assistant message the sender's apology text and changes
\* nothing else of the store, ChatView and EmotionChat reset the sending flag,
\* and no stream is ever started for that send; the apology stays.
C20_FailureCaught == []C20_Failed /\ [][C20_Step]_vars

\* a typed send has failed next to the messages of an earlier send
C20_Witness ==
  \E k \in DOMAIN sends :
    /\ sends[k].pc = "failed"
    /\ sends[k].kind = "typed"
    /\ sends[k].asst \in DOMAIN store.messages
    /\ store.messages[sends[k].asst].content = Apology
    /\ ~sending
    /\ Cardinality(DOMAIN store.messages) >= 4

----------------------------------------------------------------------------
(* Claims about mockStream (StreamSpec) *)

\* mockStream's timer hands a chunk of stream k to the callback in this step
Delivers(k) ==
  /\ k \in DOMAIN sends
  /\ sends[k].pc = "stream"
  /\ sends'[k].i = sends[k].i + 1

\* the handle of stream k is invoked in this step
Cancels(k) ==
  /\ k \in DOMAIN sends
  /\ sends'[k].cancels = sends[k].cancels + 1

C17_Delivered ==
  \A k \in DOMAIN sends :
    sends[k].cancels = 0 =>
      /\ sends[k].dones <= 1
      /\ sends[k].pc = "stream" =>
           /\ sends[k].dones = 0
           /\ sends[k].acc = Concat(SubSeq(sends[k].tokens, 1, sends[k].i))
      /\ sends[k].pc = "done" =>
           /\ sends[k].dones = 1
           /\ sends[k].acc = sends[k].reply

C17_Step ==
  \A k \in DOMAIN sends :
    /\ Delivers(k) =>
         /\ sends[k].i < Len(sends[k].tokens)
         /\ sends'[k].acc = sends[k].acc \o sends[k].tokens[sends[k].i + 1]
    /\ sends[k].pc = "done" =>
         /\ sends'[k].i = sends[k].i
         /\ sends'[k].acc = sends[k].acc
         /\ sends'[k].dones = sends[k].dones
         /\ store' = store

\* C17: a mockStream that is not cancelled hands the pieces of the reply to
\* the callback one per tick, in order; what it has handed over when it
\* signals completion is the whole reply, whitespace included; it signals
\* completion once and hands over nothing afterwards.
C17_StreamDeliversReply == []C17_Delivered /\ [][C17_Step]_vars

\* a reply with words and whitespace has been streamed to completion
C17_Witness ==
  \E k \in DOMAIN sends :
    /\ sends[k].pc = "done"
    /\ sends[k].cancels = 0
    /\ sends[k].dones = 1
    /\ sends[k].i >= 4
    /\ sends[k].acc = sends[k].reply
    /\ \E j \in DOMAIN sends[k].reply : IsSpace(sends[k].reply[j])

\* C18: once the handle has been invoked, the callback is handed no further
\* chunk, so the store gets no further UPDATE_MESSAGE, and the invocation
\* itself leaves the content applied so far as it is.
C18_CancelStops ==
  [][\A k \in DOMAIN sends :
       (sends[k].cancels > 0 \/ Cancels(k))
         => /\ sends'[k].i = sends[k].i
            /\ sends'[k].acc = sends[k].acc
            /\ store' = store]_vars

\* a stream was cancelled between two chunks: part of the reply is in the
\* message and the rest was never delivered
C18_Witness ==
  \E k \in DOMAIN sends :
    /\ sends[k].pc = "cancelled"
    /\ sends[k].cancels = 1
    /\ sends[k].i > 0
    /\ sends[k].i < Len(sends[k].tokens)
    /\ store.messages[sends[k].asst].content # <<>>

\* C19: invoking the handle after the stream has completed, or again after it
\* was cancelled, changes nothing: no chunk, no completion signal, no change
\* of the store or of the sending flag.
C19_CancelIdempotent ==
  [][\A k \in DOMAIN sends :
       (Cancels(k) /\ sends[k].pc # "stream")
         => /\ sends'[k] = [sends[k] EXCEPT !.cancels = @ + 1]
            /\ store' = store
            /\ sending' = sending]_vars

\* the handle has been invoked twice after completion
C19_Witness ==
  \E k \in DOMAIN sends :
    /\ sends[k].pc = "done"
    /\ sends[k].dones = 1
    /\ sends[k].cancels = 2

\* a text with a character that is no white space
Audible(text) == \E q \in 1..Len(text) : text[q] \notin WhiteSpace

\* C21: recognition that is unsupported, does not start or reports an error,
\* and recognition that ends without an audible final transcript, leave the
\* store as it is and start no send: a step that sets an error changes neither,
\* a recognizer that ends changes neither or starts a voice send of an audible
\* transcript, and every voice send there is carries an audible transcript.
C21_VoiceFailuresStayLocal ==
  /\ [](\A k \in DOMAIN sends : sends[k].kind = "voice" => Audible(sends[k].text))
  /\ [][/\ (rec'.error # Null /\ rec'.error # rec.error) =>
             (store' = store /\ sends' = sends)
        /\ (Len(rec'.live) < Len(rec.live)) =>
             \/ store' = store /\ sends' = sends
             \/ /\ Len(sends') = Len(sends) + 1
                /\ sends'[Len(sends')].kind = "voice"
                /\ Audible(sends'[Len(sends')].text)]_vars

\* recognition could not be started while a conversation with an earlier
\* voice message exists
C21_Witness ==
  /\ rec.error = "start"
  /\ \E k \in DOMAIN sends : sends[k].kind = "voice" /\ sends[k].pc = "done"

\* send k is a run of handleSend, and it has been invoked without having
\* reset the sending flag yet
Typed(k) == sends[k].kind \in {"typed", "emotion"}
InFlight(k) == sends[k].pc \in {"timeout", "request", "stream"}

\* C31: while a run of handleSend has not reset the sending flag, no later
\* run adds its messages and starts its request, and the flag is true while
\* the stream of a run delivers chunks.
C31_TypedSendsExclusive ==
  /\ [](\A k \in DOMAIN sends : (Typed(k) /\ sends[k].pc = "stream") => sending)
  /\ [][\A j \in DOMAIN sends : \A k \in DOMAIN sends :
          (j < k /\ Typed(j) /\ Typed(k) /\ InFlight(j)) => ~Sent(k)]_vars

\* send k takes a step after its messages were dispatched: a chunk, the
\* end of its stream, its reply or its failure
Updating(k) ==
  /\ k \in DOMAIN sends
  /\ sends[k].pc \in {"request", "stream"}
  /\ (sends'[k].pc # sends[k].pc \/ sends'[k].i # sends[k].i)

C32_OwnIds ==
  \A k \in DOMAIN sends : \A j \in DOMAIN sends :
    (sends[k].asst # Null /\ j # k) =>
      /\ sends[k].asst # sends[j].asst
      /\ sends[k].asst # sends[j].user
      /\ sends[k].asst # sends[k].user

C32_Step ==
  \A k \in DOMAIN sends :
    Updating(k) =>
      /\ store'.conversations = store.conversations
      /\ store'.convKeys = store.convKeys
      /\ store'.activeId = store.activeId
      /\ DOMAIN store'.messages = DOMAIN store.messages
      /\ \A m \in DOMAIN store.messages :
           IF m = sends[k].asst
           THEN /\ store.messages[m].role = "assistant"
                /\ store'.messages[m] =
                     [store.messages[m] EXCEPT !.content = store'.messages[m].content]
           ELSE store'.messages[m] = store.messages[m]

\* C32: what a send writes after its two messages were added goes to the
\* assistant message of that send and to nothing else in the store, whatever
\* other sends, new conversations or changes of the active conversation
\* come in between; no two sends share an assistant id.
C32_UpdatesOwnMessage == []C32_OwnIds /\ [][C32_Step]_vars

\* a stream has written to its message after another conversation became
\* the active one, and a second send has written its own reply
C32_Witness ==
  \E k \in DOMAIN sends : \E j \in DOMAIN sends :
    /\ j # k
    /\ sends[k].pc = "stream"
    /\ sends[k].i > 0
    /\ sends[k].conv \in DOMAIN store.conversations
    /\ store.activeId # sends[k].conv
    /\ store.messages[sends[k].asst].content # <<>>
    /\ sends[j].asst # Null
    /\ sends[j].asst \in DOMAIN store.messages
    /\ store.messages[sends[j].asst].content # <<>>

\* C33: when requests settle and stream timers keep firing, every run of
\* handleSend that has set the sending flag comes to its end, by the end of
\* its stream or by its failure, and the flag is false then.
C33_ComposerReenabled ==
  \A k \in 1..MaxSends :
    (k \in DOMAIN sends /\ Typed(k) /\ sends[k].pc = "request" /\ sending)
      ~> (k \in DOMAIN sends /\ sends[k].pc \in {"done", "failed"} /\ ~sending)

\* one run has ended by its stream and one by a failure, and the flag is false
C33_Witness ==
  /\ ~sending
  /\ \E k \in DOMAIN sends : Typed(k) /\ sends[k].pc = "done" /\ sends[k].reply # <<>>
  /\ \E k \in DOMAIN sends : Typed(k) /\ sends[k].pc = "failed"

\* the ids of conversation c, before and after a step
Ids(c) == store.conversations[c].messageIds
IdsAfter(c) == store'.conversations[c].messageIds

\* in every conversation the user message of a send is directly followed by
\* the placeholder of that send, and neither is listed without the other
C34_Pairs ==
  \A k \in DOMAIN sends : \A c \in DOMAIN store.conversations :
    sends[k].user # Null =>
      \A p \in 1..Len(Ids(c)) :
        /\ Ids(c)[p] = sends[k].user =>
             (p < Len(Ids(c)) /\ Ids(c)[p + 1] = sends[k].asst)
        /\ Ids(c)[p] = sends[k].asst => (p > 1 /\ Ids(c)[p - 1] = sends[k].user)

\* the step in which a send dispatches its messages adds nothing, or its two
\* ids in this order to the end of one conversation
C34_Step ==
  \A k \in DOMAIN sends :
    Sent(k) =>
      \/ \A c \in DOMAIN store.conversations : IdsAfter(c) = Ids(c)
      \/ \E c \in DOMAIN store.conversations :
           /\ IdsAfter(c) = Ids(c) \o <<sends'[k].user, sends'[k].asst>>
           /\ \A d \in DOMAIN store.conversations \ {c} : IdsAfter(d) = Ids(d)

\* C34: a send that adds messages appends two ids to one conversation, its
\* user message directly followed by its placeholder, and under every
\* interleaving of sends the two stay next to each other.
C34_PairsAdjacent == []C34_Pairs /\ [][C34_Step]_vars

\* two sends that were in flight together have their pairs one after the
\* other in the same conversation
C34_Witness ==
  \E j \in DOMAIN sends : \E k \in DOMAIN sends : \E c \in DOMAIN store.conversations :
    /\ j # k
    /\ sends[j].pc = "stream"
    /\ sends[k].pc = "request"
    /\ sends[j].user # Null
    /\ Ids(c) = <<sends[j].user, sends[j].asst, sends[k].user, sends[k].asst>>

----------------------------------------------------------------------------
(* Claims about a send that starts without an active conversation (Spec).  *)
(* ChatView's useEffect leaves no render of ChatView or TalkToAI without an *)
(* active conversation; EmotionChat runs the same handleSend without that   *)
(* effect, so its first send starts on the initial store.                   *)

NoActive(state) ==
  state.activeId = Null \/ state.activeId \notin DOMAIN state.conversations

\* every send of ChatView and TalkToAI waits with a state that has an active
\* conversation
ChatSendsStartActive ==
  \A k \in DOMAIN sends :
    (sends[k].kind \in {"typed", "voice"} /\ sends[k].pc = "timeout") =>
      ~NoActive(sends[k].snap)

----------------------------------------------------------------------------
(* Claims about parseMarkdown, checked under MarkdownSpec.  Positions count
   from 1 here. *)

IsMarker(c) == c = "bq" \/ c = "*"

\* the position of the earliest marker character of str, 0 when it has none
FirstMarker(str) ==
  LET ps == {p \in 1..Len(str) : IsMarker(str[p])}
  IN IF ps = {} THEN 0 ELSE CHOOSE p \in ps : \A q \in ps : p <= q

\* the opener at the head of str: backquote, pair of asterisks, lone asterisk
Opener(str) ==
  IF str[1] = "bq" THEN [type |-> "inlinecode", m |-> <<"bq">>]
  ELSE IF Len(str) >= 2 /\ str[2] = "*" THEN [type |-> "bold", m |-> <<"*", "*">>]
  ELSE [type |-> "italic", m |-> <<"*">>]

\* the positions behind the opener m where m occurs again
Closers(str, m) ==
  {e \in (Len(m) + 1)..(Len(str) - Len(m) + 1) : SubSeq(str, e, e + Len(m) - 1) = m}

FirstCloser(str, m) == CHOOSE e \in Closers(str, m) : \A f \in Closers(str, m) : e <= f

From(str, p) == SubSeq(str, p, Len(str))

\* a step of the inline scan, and the node it pushed
InlineStep == md.pc = "inline" /\ md.rest # <<>> /\ md' # md
Pushed == md'.parts[Len(md'.parts)]
PushedOne == md'.parts = Append(md.parts, Pushed)

Parsed(input) == md.pc = "done" /\ md.input = input

C22_Examples ==
  /\ Parsed(HelloWorld) =>
       md.nodes = << [type |-> "text", value |-> <<"Hello ">>],
                     [type |-> "bold", value |-> <<"world">>],
                     [type |-> "text", value |-> <<", this is ">>],
                     [type |-> "italic", value |-> <<"great">>],
                     [type |-> "text", value |-> <<"!">>],
                     [type |-> "br"] >>
  /\ Parsed(UseFoo) =>
       md.nodes = << [type |-> "text", value |-> <<"Use ">>],
                     [type |-> "inlinecode", value |-> <<"foo()">>],
                     [type |-> "text", value |-> <<" now">>],
                     [type |-> "br"] >>

C22_Step ==
  InlineStep =>
    LET r == md.rest
        p == FirstMarker(r)
        o == Opener(r)
        e == FirstCloser(r, o.m)
    IN /\ PushedOne
       /\ p > 1 => /\ Pushed = [type |-> "text", value |-> SubSeq(r, 1, p - 1)]
                   /\ md'.rest = From(r, p)
                   /\ md'.pc = "inline"
       /\ (p = 1 /\ Closers(r, o.m) # {}) =>
           /\ Pushed = [type |-> o.type, value |-> SubSeq(r, Len(o.m) + 1, e - 1)]
           /\ md'.rest = From(r, e + Len(o.m))
           /\ md'.pc = "inline"

\* C22: on a line that is no fence the scan goes left to right: the text
\* before the earliest marker becomes a text node, and a marker at the head
\* that occurs again later on the line gives a node of its kind whose value is
\* the text strictly between the two, the scan going on behind the second;
\* the two documented examples give the documented nodes.
C22_InlineScan == []C22_Examples /\ [][C22_Step]_vars

\* the first example is parsed to its six nodes
C22_Witness ==
  /\ Parsed(HelloWorld)
  /\ Len(md.nodes) = 6
  /\ md.nodes[2] = [type |-> "bold", value |-> <<"world">>]

\* C23: at an asterisk the scan takes a bold opener exactly when the next
\* character is an asterisk too, and an italic opener otherwise.
C23_BoldBeforeItalic ==
  [][(InlineStep /\ md.rest[1] = "*") =>
       LET r == md.rest
           pair == Len(r) >= 2 /\ r[2] = "*"
       IN /\ Pushed.type = "bold" => pair
          /\ Pushed.type = "italic" => ~pair
          /\ (pair /\ Closers(r, <<"*", "*">>) # {}) => Pushed.type = "bold"
          /\ (~pair /\ Closers(r, <<"*">>) # {}) => Pushed.type = "italic"
          /\ Pushed.type \in {"bold", "italic", "text"}]_vars

\* a pair of asterisks opened a bold node although a lone asterisk closes
\* earlier than the pair
C23_Witness ==
  /\ md.input = <<"*", "*", "a", "*", "*">>
  /\ md.pc = "done"
  /\ md.nodes = << [type |-> "bold", value |-> <<"a">>], [type |-> "br"] >>

\* C24: an opener that does not occur again later on the line turns the whole
\* remainder, opener included, into one text node and ends the scan of the
\* line: the next step closes the line with the parts pushed so far.
C24_UnmatchedOpener ==
  [][/\ (InlineStep /\ FirstMarker(md.rest) = 1
          /\ Closers(md.rest, Opener(md.rest).m) = {}) =>
          /\ PushedOne
          /\ Pushed = [type |-> "text", value |-> md.rest]
          /\ md'.rest = <<>>
     /\ (md.pc = "inline" /\ md.rest = <<>> /\ md' # md) =>
          /\ md'.nodes = md.nodes \o md.parts \o << [type |-> "br"] >>
          /\ md'.pc = "line"
          /\ md'.i = md.i + 1]_vars

\* an unmatched asterisk swallowed a complete pair of backquotes behind it
C24_Witness ==
  /\ md.pc = "inline"
  /\ md.rest = <<>>
  /\ md.parts = << [type |-> "text", value |-> <<"*", "a", "bq", "a", "bq">>] >>

\* a line whose content behind its leading white space starts with three backquotes
IsFenceLine(line) ==
  \E k \in 0..(Len(line) - 3) :
    /\ \A q \in 1..k : line[q] \in WhiteSpace
    /\ line[k + 1] = "bq" /\ line[k + 2] = "bq" /\ line[k + 3] = "bq"

\* the lines glued with a newline between two of them
RECURSIVE Glued(_)
Glued(ls) ==
  IF ls = <<>> THEN <<>>
  ELSE IF Len(ls) = 1 THEN ls[1]
  ELSE ls[1] \o <<"\n">> \o Glued(Tail(ls))

\* the scan of the lines is at a fence line, the line number Here
AtFence == md.pc = "line" /\ md.i < Len(md.lines) /\ IsFenceLine(md.lines[md.i + 1])
Here == md.i + 1
LaterFences == {c \in (Here + 1)..Len(md.lines) : IsFenceLine(md.lines[c])}
Closing == CHOOSE c \in LaterFences : \A d \in LaterFences : c <= d

\* C25: a fence line that no later line closes gives exactly one codeblock node
\* whose value is all the remaining lines glued with newlines; nothing else
\* is emitted for the fence line or the absorbed lines, and the input is
\* exhausted.  The documented example gives the single node codeblock('code here').
C25_UnterminatedFence ==
  /\ [](Parsed(CodeHere) =>
         md.nodes = << [type |-> "codeblock", value |-> <<"code here">>] >>)
  /\ [][/\ (AtFence /\ LaterFences = {}) =>
            /\ md'.nodes = Append(md.nodes,
                  [type |-> "codeblock",
                   value |-> Glued(SubSeq(md.lines, Here + 1, Len(md.lines)))])
            /\ md'.pc = "line"
            /\ md'.i >= Len(md.lines)
        /\ (md.pc = "line" /\ md.i >= Len(md.lines) /\ md' # md) =>
            /\ md'.pc = "done"
            /\ md'.nodes = md.nodes]_vars

\* an open fence absorbed two lines, one of them with markers
C25_Witness ==
  /\ md.pc = "done"
  /\ md.lines = << <<"a">>, <<"bq", "bq", "bq">>, <<"*", "a", "*">>, <<"a">> >>
  /\ md.nodes = << [type |-> "text", value |-> <<"a">>], [type |-> "br"],
                   [type |-> "codeblock", value |-> <<"*", "a", "*", "\n", "a">>] >>

\* C26: for a fence line that a later fence line closes, the codeblock value
\* is the lines strictly between the two, glued with newlines and unparsed;
\* the two fence lines give no node and the scan goes on with the line behind
\* the closing fence.
C26_ClosedFence ==
  [][(AtFence /\ LaterFences # {}) =>
       /\ md'.nodes = Append(md.nodes,
             [type |-> "codeblock",
              value |-> Glued(SubSeq(md.lines, Here + 1, Closing - 1))])
       /\ md'.pc = "line"
       /\ md'.i = Closing]_vars

\* a closed block with markers inside, followed by an ordinary line
C26_Witness ==
  /\ md.pc = "done"
  /\ md.lines = << <<"bq", "bq", "bq">>, <<"*", "a", "*">>, <<"bq", "bq", "bq">>, <<"a">> >>
  /\ md.nodes = << [type |-> "codeblock", value |-> <<"*", "a", "*">>],
                   [type |-> "text", value |-> <<"a">>], [type |-> "br"] >>

\* the number of lines, among the first n, that are neither a fence line nor
\* inside a fenced block; open tells whether line 1 is inside a block
RECURSIVE PlainLines(_, _)
PlainLines(ls, open) ==
  IF ls = <<>> THEN 0
  ELSE IF IsFenceLine(ls[1]) THEN PlainLines(Tail(ls), ~open)
  ELSE IF open THEN PlainLines(Tail(ls), open)
  ELSE 1 + PlainLines(Tail(ls), open)

RECURSIVE Brs(_)
Brs(ns) == IF ns = <<>> THEN 0
           ELSE (IF ns[1].type = "br" THEN 1 ELSE 0) + Brs(Tail(ns))

\* C27: the result holds one br for every line that is neither a fence line
\* nor inside a block, and none for the others; the br of a line comes directly
\* behind the inline nodes of that line, none of which is a br, also when the
\* line is empty or the last one.
C27_OneBrPerLine ==
  /\ [](md.pc = "done" => Brs(md.nodes) = PlainLines(md.lines, FALSE))
  /\ [][/\ (md.pc \in {"inline", "eol"} /\ md'.pc = "line") =>
            /\ md'.nodes = md.nodes \o md.parts \o << [type |-> "br"] >>
            /\ Brs(md.parts) = 0
            /\ md'.i = md.i + 1
        /\ (md.pc = "line" /\ md' # md) => Brs(md'.nodes) = Brs(md.nodes)]_vars

\* an empty line between two lines and an empty last line have their br
C27_Witness ==
  /\ md.pc = "done"
  /\ md.lines = << <<"a">>, <<>>, <<"a">>, <<>> >>
  /\ md.nodes = << [type |-> "text", value |-> <<"a">>], [type |-> "br"], [type |-> "br"],
                   [type |-> "text", value |-> <<"a">>], [type |-> "br"], [type |-> "br"] >>

\* what the inline scan has not scanned yet: nothing once it is left
Remainder == IF md.pc = "inline" THEN md.rest ELSE <<>>

\* C28: every call returns; each iteration of the inline scan leaves a
\* strictly shorter remainder and each iteration of the line scan a larger
\* line index.
C28_Total ==
  /\ <>(md.pc = "done")
  /\ [][/\ InlineStep => Len(Remainder') < Len(Remainder)
        /\ (md.pc = "line" /\ md.i < Len(md.lines) /\ md' # md) =>
            \/ md'.pc = "line" /\ md'.i > md.i
            \/ md'.pc = "inline" /\ md'.i = md.i
        /\ (md.pc \in {"inline", "eol"} /\ md'.pc = "line") => md'.i > md.i
        /\ md'.lines = md.lines]_vars

\* three asterisks alone were parsed to the end
C28_Witness ==
  /\ md.pc = "done"
  /\ md.input = <<"*", "*", "*">>
  /\ md.nodes = << [type |-> "text", value |-> <<"*", "*", "*">>], [type |-> "br"] >>

\* piece occurs in str as a contiguous run
IsPiece(piece, str) ==
  \E k \in 0..(Len(str) - Len(piece)) : SubSeq(str, k + 1, k + Len(piece)) = piece

\* C29: a node is a kind with at most a value, and the value is a contiguous
\* piece of the input, character by character: markers inside a value stay
\* characters of that one node.
C29_ValuesLiteral ==
  \A n \in Range(md.nodes) \cup Range(md.parts) :
    \/ n = [type |-> "br"]
    \/ /\ DOMAIN n = {"type", "value"}
       /\ n.type \in {"text", "codeblock", "inlinecode", "bold", "italic"}
       /\ IsPiece(n.value, md.input)
       /\ \A k \in 1..Len(n.value) : n.value[k] \in Range(md.input)

\* the asterisk inside the bold text of '**a*b**' is a character of the node
C29_Witness ==
  /\ Parsed(StarInBold)
  /\ md.nodes = << [type |-> "bold", value |-> <<"a", "*", "b">>], [type |-> "br"] >>

\* a node written back as markup: a br is the end of a line
Written(n) ==
  IF n.type = "br" THEN <<"\n">>
  ELSE IF n.type = "inlinecode" THEN <<"bq">> \o n.value \o <<"bq">>
  ELSE IF n.type = "bold" THEN <<"*", "*">> \o n.value \o <<"*", "*">>
  ELSE IF n.type = "italic" THEN <<"*">> \o n.value \o <<"*">>
  ELSE n.value

RECURSIVE WrittenAll(_)
WrittenAll(ns) == IF ns = <<>> THEN <<>> ELSE Written(ns[1]) \o WrittenAll(Tail(ns))

\* the lines, each with its line end
RECURSIVE Ended(_)
Ended(ls) == IF ls = <<>> THEN <<>> ELSE ls[1] \o <<"\n">> \o Ended(Tail(ls))

NoFenceLine == \A q \in 1..Len(md.lines) : ~IsFenceLine(md.lines[q])

\* C35: for an input without a fence line the nodes written back as markup
\* are the lines of the input, each with its line end, in order; while a
\* line is scanned, its parts and the remainder written back are that line.
C35_NothingLost ==
  /\ (md.pc = "done" /\ NoFenceLine) =>
       /\ WrittenAll(md.nodes) = Ended(md.lines)
       /\ WrittenAll(md.nodes) = md.input \o <<"\n">>
  /\ (md.pc = "inline" /\ NoFenceLine) =>
       WrittenAll(md.parts) \o md.rest = md.lines[md.i + 1]

\* a line with an italic text followed by an unmatched backquote
C35_Witness ==
  /\ md.pc = "done"
  /\ md.input = <<"*", "a", "*", "bq", "a">>
  /\ md.nodes = << [type |-> "italic", value |-> <<"a">>],
                   [type |-> "text", value |-> <<"bq", "a">>], [type |-> "br"] >>

====
